---- MODULE Spec2Model ----
(***************************************************************************)
(* Supervisor / specialist handoffs of the digital music store assistant. *)
(* Two graphs are modelled:                                                *)
(*   command_send  (src/agents/command_send.py): the supervisor asks the  *)
(*                 LLM for a structured Step and returns Command + Send;  *)
(*   handoff_tools (src/agents/handoff_tools.py): the supervisor's LLM    *)
(*                 response may carry transfer tool calls, which the      *)
(*                 tools node turns into Commands.                        *)
(* The LLM is the environment: its outputs are the inputs of the actions. *)
(* The shared graph state is src/utils.py State: messages (merged with    *)
(* add_messages), customer_id and loaded_memory (both NotRequired).       *)
(***************************************************************************)
EXTENDS Naturals, Sequences, FiniteSets

VARIABLES strategy, messages, customer_id, loaded_memory, pc, active, sent,
          result, calls, last, transfers, nextId

vars == <<strategy, messages, customer_id, loaded_memory, pc, active, sent,
          result, calls, last, transfers, nextId>>

(* ------------------------------ bounds -------------------------------- *)
\* Longest conversation history (user messages) the run is started with.
MaxH == 2
\* Cap on the number of transfers (Send / transfer tool calls) in one run.
MaxTransfers == 2

(* ----------------------------- vocabulary ----------------------------- *)
Unset == "<unset>"
NoId == 0
END == "__end__"
CS == "command_send"
HT == "handoff_tools"
MUSIC == "music_catalog_subagent"
INVOICE == "invoice_information_subagent"
Specialists == {MUSIC, INVOICE}
T_INVOICE == "transfer-to-invoice-agent"
T_MUSIC == "transfer-to-music-catalog-agent"
EmptyFn == [x \in {} |-> x]

(* ------------------------------ messages ------------------------------ *)
HumanMessage(content) ==
    [id |-> NoId, type |-> "human", content |-> content, name |-> Unset,
     tool_calls |-> <<>>, tool_call_id |-> NoId]

AIMessage(content, tool_calls, name) ==
    [id |-> NoId, type |-> "ai", content |-> content, name |-> name,
     tool_calls |-> tool_calls, tool_call_id |-> NoId]

ToolMessage(content, name, tool_call_id) ==
    [id |-> NoId, type |-> "tool", content |-> content, name |-> name,
     tool_calls |-> <<>>, tool_call_id |-> tool_call_id]

\* A {"role": ..., "content": ...} dict is turned into a message object when
\* it enters a messages channel.
Coerce(m) ==
    IF "role" \in DOMAIN m
    THEN IF m.role = "user" THEN HumanMessage(m.content)
         ELSE AIMessage(m.content, <<>>, Unset)
    ELSE m

CountNoId(ms, n) == Cardinality({j \in 1..n : ms[j].id = NoId})

\* Messages without an id get a fresh one (a uuid; here the next counter value).
AssignIds(ms, next) ==
    [i \in 1..Len(ms) |->
        IF ms[i].id = NoId
        THEN [ms[i] EXCEPT !.id = next + CountNoId(ms, i - 1)]
        ELSE ms[i]]

RECURSIVE MergeById(_, _)
MergeById(left, right) ==
    IF right = <<>> THEN left
    ELSE LET m == Head(right)
             hit == {i \in 1..Len(left) : left[i].id = m.id}
         IN IF hit # {}
            THEN MergeById([left EXCEPT ![CHOOSE i \in hit : TRUE] = m], Tail(right))
            ELSE MergeById(Append(left, m), Tail(right))

\* add_messages as plain list concatenation (no merge by id).
add_messages_Concat(left, right, next) ==
    LET lc == [i \in 1..Len(left) |-> Coerce(left[i])]
        rc == [i \in 1..Len(right) |-> Coerce(right[i])]
    IN AssignIds(lc, next) \o AssignIds(rc, next + CountNoId(lc, Len(lc)))

\* The reducer of State.messages: coerce, give ids, then merge by id (a message
\* whose id is already present replaces that message in place, any other one
\* is appended).
add_messages(left, right, next) ==
    LET lc == [i \in 1..Len(left) |-> Coerce(left[i])]
        rc == [i \in 1..Len(right) |-> Coerce(right[i])]
    IN MergeById(AssignIds(lc, next),
                 AssignIds(rc, next + CountNoId(lc, Len(lc))))

\* Number of fresh ids add_messages(left, right, _) hands out.
FreshIds(left, right) ==
    LET lc == [i \in 1..Len(left) |-> Coerce(left[i])]
        rc == [i \in 1..Len(right) |-> Coerce(right[i])]
    IN CountNoId(lc, Len(lc)) + CountNoId(rc, Len(rc))

State == [messages |-> messages, customer_id |-> customer_id,
          loaded_memory |-> loaded_memory]

\* An update dict filled with every key of State, the optional ones empty.
Update_WithFields(msgs) ==
    [messages |-> msgs, customer_id |-> Unset, loaded_memory |-> Unset]

\* The update dict the routing code issues: {"messages": msgs} and no other key.
Update(msgs) == [messages |-> msgs]

\* The value of state key k after a node's update: a key the update does not
\* hold keeps its value.
KeyAfter(old, upd, k) == IF k \in DOMAIN upd THEN upd[k] ELSE old

(* ------------------ command_send.py: structured decision -------------- *)
STEP_END == "END"
Contexts == {"look up the album", "list the invoices"}

\* Step, as the router model returns it; Unset stands for a subagent field
\* that is None or empty (falsy).
Steps == [subagent : {MUSIC, INVOICE, STEP_END, Unset}, context : Contexts]

\* AgentInput that forwards the history and puts the instruction after it.
AgentInput_KeepHistory(state, res) ==
    [state EXCEPT !.messages = state.messages \o
                               <<[role |-> "user", content |-> res.context]>>]

\* AgentInput built without **state: only the messages key is filled.
AgentInput_DropFields(state, res) ==
    [messages |-> <<[role |-> "user", content |-> res.context]>>,
     customer_id |-> Unset, loaded_memory |-> Unset]

\* {**state, "messages": [{"role": "user", "content": result.context}]}
AgentInput(state, res) ==
    [state EXCEPT !.messages = <<[role |-> "user", content |-> res.context]>>]

\* The END branch returning Command(goto=END) without its update.
EndUpdate_Missing(summary) == <<>>

\* The END branch: the summary call's message is the whole update.
EndUpdate(summary) == <<summary>>

\* supervisor whose else branch defaults to END instead of raising.
supervisor_DefaultEnd(state, res, summary) ==
    IF res.subagent \in {MUSIC, INVOICE}
    THEN [kind |-> "send", goto |-> res.subagent, arg |-> AgentInput(state, res),
          update |-> <<>>, llm |-> <<"router">>]
    ELSE [kind |-> "end", goto |-> END, arg |-> Unset,
          update |-> EndUpdate(summary), llm |-> <<"router", "summary">>]

\* supervisor that asks the summary model before looking at the decision.
supervisor_EagerSummary(state, res, summary) ==
    IF res.subagent = Unset
    THEN [kind |-> "raise", goto |-> Unset, arg |-> Unset,
          update |-> <<>>, llm |-> <<"router", "summary">>]
    ELSE IF res.subagent \in {MUSIC, INVOICE}
    THEN [kind |-> "send", goto |-> res.subagent, arg |-> AgentInput(state, res),
          update |-> <<>>, llm |-> <<"router", "summary">>]
    ELSE [kind |-> "end", goto |-> END, arg |-> Unset,
          update |-> EndUpdate(summary), llm |-> <<"router", "summary">>]

\* supervisor(state), with the router model's answer `res` and the summary
\* model's answer `summary` as inputs. kind "send" is
\* Command(goto=[Send(goto, arg)]), kind "end" is Command(goto=END, update),
\* kind "raise" is the ValueError, kind "none" is falling off the if-chain.
\* llm lists the LLM calls made, in order.
supervisor(state, res, summary) ==
    IF res.subagent # Unset
    THEN IF res.subagent = MUSIC
         THEN [kind |-> "send", goto |-> res.subagent, arg |-> AgentInput(state, res),
               update |-> <<>>, llm |-> <<"router">>]
         ELSE IF res.subagent = INVOICE
         THEN [kind |-> "send", goto |-> res.subagent, arg |-> AgentInput(state, res),
               update |-> <<>>, llm |-> <<"router">>]
         ELSE IF res.subagent = STEP_END
         THEN [kind |-> "end", goto |-> END, arg |-> Unset,
               update |-> EndUpdate(summary), llm |-> <<"router", "summary">>]
         ELSE [kind |-> "none", goto |-> Unset, arg |-> Unset,
               update |-> <<>>, llm |-> <<"router">>]
    ELSE [kind |-> "raise", goto |-> Unset, arg |-> Unset,
          update |-> <<>>, llm |-> <<"router">>]

\* A specialist wired to END instead of back to the supervisor.
AfterSubagent_End(node) == END

\* add_edge(<specialist>, "supervisor"), in both graphs.
AfterSubagent(node) == "supervisor"

Summary == AIMessage("summary of the conversation", <<>>, Unset)

SupervisorCS ==
    /\ strategy = CS
    /\ pc = "supervisor"
    /\ \E res \in Steps :
         /\ res.subagent \in Specialists => transfers < MaxTransfers
         /\ LET cmd == supervisor(State, res, Summary) IN
              /\ result' = res
              /\ calls' = cmd.llm
              /\ last' = "supervisor"
              /\ IF cmd.kind = "raise"
                 THEN /\ pc' = "error"
                      /\ active' = {}
                      /\ sent' = EmptyFn
                      /\ UNCHANGED <<messages, nextId, transfers>>
                      /\ UNCHANGED <<customer_id, loaded_memory>>
                 ELSE IF cmd.kind = "send"
                 THEN /\ pc' = "subagents"
                      /\ active' = {cmd.goto}
                      /\ sent' = [n \in {cmd.goto} |-> cmd.arg]
                      /\ transfers' = transfers + 1
                      /\ UNCHANGED <<messages, nextId>>
                      /\ UNCHANGED <<customer_id, loaded_memory>>
                 ELSE /\ pc' = END
                      /\ active' = {}
                      /\ sent' = EmptyFn
                      /\ messages' = add_messages(messages, Update(cmd.update).messages,
                                                  nextId)
                      /\ nextId' = nextId + FreshIds(messages, cmd.update)
                      /\ customer_id' =
                            KeyAfter(customer_id, Update(cmd.update), "customer_id")
                      /\ loaded_memory' =
                            KeyAfter(loaded_memory, Update(cmd.update), "loaded_memory")
                      /\ UNCHANGED transfers
    /\ UNCHANGED strategy

(* ------------------ handoff_tools.py: transfer tool calls ------------- *)
\* tools = [transfer_to_invoice_agent, transfer_to_music_catalog_agent]
tools == {T_INVOICE, T_MUSIC}

\* model.bind_tools(tools): the tools the supervisor's model is offered, and
\* so the names its tool calls carry.
BoundTools == tools

\* A tools node built from the invoice tool alone.
NodeTools_InvoiceOnly == {T_INVOICE}

\* ToolNode(tools): the tools the tools node can run, looked up by name.
NodeTools == tools

Reasons == {Unset, "refund question"}
ToolContexts == {Unset, "customer wants the last invoice"}

\* One tool call of the supervisor's response, before its id is known. A
\* reason / context of Unset is an argument the LLM left out.
ToolCallChoices == [name : BoundTools, reason : Reasons, context : ToolContexts]

\* The responses model_with_tools can give with at most `budget` tool calls;
\* the calls' ids are fresh (base + 1, base + 2, ...).
Responses(budget, base) ==
    UNION {{AIMessage("response",
                      [i \in 1..n |-> [name |-> f[i].name, reason |-> f[i].reason,
                                       context |-> f[i].context, id |-> base + i]],
                      Unset) : f \in [1..n -> ToolCallChoices]} : n \in 0..budget}

\* The invoice transfer tool building its tool message without the call's id.
transfer_to_invoice_agent_NoCallId(rs, tool_call_id, reason, context) ==
    LET agent_name == INVOICE
        r == IF reason = Unset THEN "Invoice-related inquiry" ELSE reason
        c == IF context = Unset THEN "Context for the invoice agent" ELSE context
        tool_message ==
            ToolMessage(<<"Successfully transferred to ", agent_name, ". Reason: ", r,
                          ". Context: ", c>>, T_INVOICE, NoId)
    IN [goto |-> agent_name, update |-> rs.messages \o <<tool_message>>]

\* @tool("transfer-to-invoice-agent"); rs is runtime.state.
transfer_to_invoice_agent(rs, tool_call_id, reason, context) ==
    LET agent_name == INVOICE
        r == IF reason = Unset THEN "Invoice-related inquiry" ELSE reason
        c == IF context = Unset THEN "Context for the invoice agent" ELSE context
        tool_message ==
            ToolMessage(<<"Successfully transferred to ", agent_name, ". Reason: ", r,
                          ". Context: ", c>>, T_INVOICE, tool_call_id)
    IN [goto |-> agent_name, update |-> rs.messages \o <<tool_message>>]

\* The music transfer tool left with the invoice tool's agent_name.
transfer_to_music_catalog_agent_Invoice(rs, tool_call_id, reason, context) ==
    LET agent_name == INVOICE
        r == IF reason = Unset THEN "Music catalog inquiry" ELSE reason
        c == IF context = Unset THEN "Context for the music catalog agent" ELSE context
        tool_message ==
            ToolMessage(<<"Successfully transferred to ", agent_name, ". Reason: ", r,
                          ". Context: ", c>>, T_MUSIC, tool_call_id)
    IN [goto |-> agent_name, update |-> rs.messages \o <<tool_message>>]

\* The music transfer tool returning the tool message alone as its update.
transfer_to_music_catalog_agent_OnlyMessage(rs, tool_call_id, reason, context) ==
    LET agent_name == MUSIC
        r == IF reason = Unset THEN "Music catalog inquiry" ELSE reason
        c == IF context = Unset THEN "Context for the music catalog agent" ELSE context
        tool_message ==
            ToolMessage(<<"Successfully transferred to ", agent_name, ". Reason: ", r,
                          ". Context: ", c>>, T_MUSIC, tool_call_id)
    IN [goto |-> agent_name, update |-> <<tool_message>>]

\* @tool("transfer-to-music-catalog-agent")
transfer_to_music_catalog_agent(rs, tool_call_id, reason, context) ==
    LET agent_name == MUSIC
        r == IF reason = Unset THEN "Music catalog inquiry" ELSE reason
        c == IF context = Unset THEN "Context for the music catalog agent" ELSE context
        tool_message ==
            ToolMessage(<<"Successfully transferred to ", agent_name, ". Reason: ", r,
                          ". Context: ", c>>, T_MUSIC, tool_call_id)
    IN [goto |-> agent_name, update |-> rs.messages \o <<tool_message>>]

\* ToolNode(tools): every tool call of the last message is run on the node's
\* input state; the node returns the list of the tools' Commands. A call whose
\* name is none of the node's tools is answered with an error tool message
\* and no goto.
tool_node(state) ==
    LET tcs == state.messages[Len(state.messages)].tool_calls
    IN [i \in 1..Len(tcs) |->
          IF tcs[i].name \notin NodeTools
          THEN [goto |-> Unset,
                update |-> <<ToolMessage(<<"Error: ", tcs[i].name, " is not a valid tool">>,
                                         tcs[i].name, tcs[i].id)>>]
          ELSE IF tcs[i].name = T_INVOICE
          THEN transfer_to_invoice_agent(state, tcs[i].id, tcs[i].reason, tcs[i].context)
          ELSE transfer_to_music_catalog_agent(state, tcs[i].id, tcs[i].reason,
                                               tcs[i].context)]

\* supervisor_node(state), with the model's response as input: the update.
supervisor_node(state, response) == <<response>>

\* should_continue that always routes to the tools node.
should_continue_Tools(state) == "tools"

should_continue(state) ==
    LET last_message == state.messages[Len(state.messages)]
    IN IF last_message.tool_calls # <<>> THEN "tools" ELSE END

\* The Commands' updates, applied one after the other through the reducer.
RECURSIVE ApplyUpdates(_, _, _)
ApplyUpdates(msgs, cmds, next) ==
    IF cmds = <<>> THEN [messages |-> msgs, next |-> next]
    ELSE ApplyUpdates(add_messages(msgs, Head(cmds).update, next), Tail(cmds),
                      next + FreshIds(msgs, Head(cmds).update))

\* State key k after the Commands' updates, the last one written last.
RECURSIVE FieldAfter(_, _, _)
FieldAfter(old, cmds, k) ==
    IF cmds = <<>> THEN old
    ELSE FieldAfter(KeyAfter(old, Update(Head(cmds).update), k), Tail(cmds), k)

SupervisorHT ==
    /\ strategy = HT
    /\ pc = "supervisor"
    /\ \E response \in Responses(MaxTransfers - transfers, transfers) :
         LET upd == Update(supervisor_node(State, response))
             new == add_messages(messages, upd.messages, nextId)
         IN
           /\ messages' = new
           /\ customer_id' = KeyAfter(customer_id, upd, "customer_id")
           /\ loaded_memory' = KeyAfter(loaded_memory, upd, "loaded_memory")
           /\ nextId' = nextId + FreshIds(messages, supervisor_node(State, response))
           /\ pc' = should_continue([State EXCEPT !.messages = new])
           /\ transfers' = transfers + Len(response.tool_calls)
    /\ calls' = <<"model_with_tools">>
    /\ last' = "supervisor"
    /\ active' = {}
    /\ sent' = EmptyFn
    /\ UNCHANGED <<strategy, result>>

Tools ==
    /\ strategy = HT
    /\ pc = "tools"
    /\ LET cmds == tool_node(State)
           done == ApplyUpdates(messages, cmds, nextId)
           gotos == {cmds[i].goto : i \in 1..Len(cmds)} \ {Unset}
           cid == FieldAfter(customer_id, cmds, "customer_id")
           mem == FieldAfter(loaded_memory, cmds, "loaded_memory")
       IN /\ messages' = done.messages
          /\ nextId' = done.next
          /\ customer_id' = cid
          /\ loaded_memory' = mem
          /\ active' = gotos
          /\ sent' = [n \in gotos |-> [messages |-> done.messages, customer_id |-> cid,
                                       loaded_memory |-> mem]]
          /\ pc' = IF gotos = {} THEN END ELSE "subagents"
    /\ last' = "tools"
    /\ UNCHANGED <<strategy, result, calls, transfers>>

(* ------------------------- the specialists ---------------------------- *)
\* A specialist graph run on `input`: it answers with one assistant message
\* and returns its whole state.
subagent(name, input, next) ==
    LET ms == add_messages(<<>>, input.messages, next)
        k == FreshIds(<<>>, input.messages)
        answer == [AIMessage("answer", <<>>, name) EXCEPT !.id = next + k]
    IN [messages |-> Append(ms, answer), customer_id |-> input.customer_id,
        loaded_memory |-> input.loaded_memory]

Orders(S) ==
    {o \in [1..Cardinality(S) -> S] : \A i, j \in 1..Cardinality(S) : i # j => o[i] # o[j]}

\* The outputs of the specialists of one step, written to the shared state in
\* the given order.
RECURSIVE MergeOutputs(_, _, _)
MergeOutputs(st, order, next) ==
    IF order = <<>> THEN [state |-> st, next |-> next]
    ELSE LET n == Head(order)
             out == subagent(n, sent[n], next)
             used == FreshIds(<<>>, sent[n].messages) + 1
         IN MergeOutputs(
              [messages |-> add_messages(st.messages, out.messages, next + used),
               customer_id |-> IF out.customer_id # Unset THEN out.customer_id
                               ELSE st.customer_id,
               loaded_memory |-> IF out.loaded_memory # Unset THEN out.loaded_memory
                                 ELSE st.loaded_memory],
              Tail(order), next + used)

Subagents ==
    /\ pc = "subagents"
    /\ \E order \in Orders(active) :
         LET done == MergeOutputs(State, order, nextId) IN
           /\ messages' = done.state.messages
           /\ customer_id' = done.state.customer_id
           /\ loaded_memory' = done.state.loaded_memory
           /\ nextId' = done.next
    /\ \E nxt \in {AfterSubagent(n) : n \in active} : pc' = nxt
    /\ last' = "subagents"
    /\ active' = {}
    /\ sent' = EmptyFn
    /\ UNCHANGED <<strategy, result, calls, transfers>>

(* --------------------------- specification ---------------------------- *)
CustomerIds == {Unset, "1"}
Memories == {Unset, "likes jazz"}
NoResult == [subagent |-> "<none>", context |-> "<none>"]

\* message i of the history the run starts with (ids already given)
Question(i) == [HumanMessage("question") EXCEPT !.id = i]

Init ==
    /\ strategy \in {CS, HT}
    /\ \E n \in 1..MaxH : messages = [i \in 1..n |-> Question(i)]
    /\ customer_id \in CustomerIds
    /\ loaded_memory \in Memories
    /\ pc = "supervisor"
    /\ active = {}
    /\ sent = EmptyFn
    /\ result = NoResult
    /\ calls = <<>>
    /\ last = "START"
    /\ transfers = 0
    /\ nextId = Len(messages) + 1

Next == SupervisorCS \/ SupervisorHT \/ Tools \/ Subagents

Spec == Init /\ [][Next]_vars

TypeOK ==
    /\ strategy \in {CS, HT}
    /\ pc \in {"supervisor", "tools", "subagents", END, "error"}
    /\ active \subseteq Specialists
    /\ transfers \in 0..MaxTransfers

(* ------------------------------ claims -------------------------------- *)
IsPrefix(s, t) == Len(s) <= Len(t) /\ SubSeq(t, 1, Len(s)) = s
DistinctIds(ms) == \A i, j \in 1..Len(ms) : i # j => ms[i].id # ms[j].id
LastOf(ms) == ms[Len(ms)]
\* The specialist a transfer action names.
NamedBy(tool) == IF tool = T_INVOICE THEN INVOICE ELSE MUSIC
\* The supervisor's latest response in the shared sequence (handoff_tools).
IsResponse(m) == m.type = "ai" /\ m.name = Unset
LatestResponse ==
    messages[CHOOSE i \in 1..Len(messages) :
               /\ IsResponse(messages[i])
               /\ \A j \in (i + 1)..Len(messages) : ~IsResponse(messages[j])]
Instruction(text) == [role |-> "user", content |-> text]

\* C1: command_send: whenever the supervisor's decision names a specialist,
\* exactly that specialist is the next node and its input's message sequence
\* is the single user-role message holding the decision's instruction text,
\* whatever the shared history is.
C1_NarrowedInput ==
    (strategy = CS /\ last = "supervisor" /\ result.subagent \in Specialists) =>
        /\ pc = "subagents"
        /\ active = {result.subagent}
        /\ DOMAIN sent = {result.subagent}
        /\ Len(sent[result.subagent].messages) = 1
        /\ sent[result.subagent].messages = <<Instruction(result.context)>>

\* C1 witness: a music hand-off decided on a history that already holds an
\* earlier specialist turn.
C1_Witness ==
    /\ strategy = CS /\ pc = "subagents" /\ result.subagent = MUSIC
    /\ Len(messages) >= 3
    /\ \E i \in 1..Len(messages) : messages[i].name \in Specialists

\* C2: command_send: a supervisor step whose decision is END ends the run
\* and leaves the shared sequence equal to the history followed by exactly
\* one new assistant message, the summary; nothing runs after END.
C2_EndAppendsSummary ==
    [][/\ pc # END
       /\ (strategy = CS /\ pc = "supervisor" /\ result'.subagent = STEP_END) =>
            /\ pc' = END
            /\ Len(messages') = Len(messages) + 1
            /\ SubSeq(messages', 1, Len(messages)) = messages
            /\ LastOf(messages').type = "ai"
            /\ LastOf(messages').content = Summary.content
            /\ LastOf(messages').tool_calls = <<>>]_vars

\* C2 witness: the run has ended with the summary after a specialist turn.
C2_Witness ==
    /\ strategy = CS /\ pc = END /\ result.subagent = STEP_END
    /\ LastOf(messages).content = Summary.content
    /\ \E i \in 1..Len(messages) : messages[i].name \in Specialists

\* C3 (as claimed): handoff_tools: the tools step leaves the shared sequence
\* equal to its input history plus exactly one tool-result message, and that
\* sequence is the input of every specialist it redirects to.
C3_OneToolResult ==
    [][(strategy = HT /\ pc = "tools") =>
         /\ Len(messages') = Len(messages) + 1
         /\ SubSeq(messages', 1, Len(messages)) = messages
         /\ LastOf(messages').type = "tool"
         /\ \A n \in active' : sent'[n].messages = messages']_vars

\* C4: handoff_tools: the specialists that run next are exactly those named
\* by the transfer actions of the supervisor's latest response (invoice tool
\* -> invoice specialist, music tool -> music specialist), and specialists
\* are only ever scheduled by the tools step.
C4_TargetIsNamedSpecialist ==
    /\ (strategy = HT /\ pc = "subagents") =>
          /\ last = "tools"
          /\ active = {NamedBy(LatestResponse.tool_calls[i].name) :
                         i \in 1..Len(LatestResponse.tool_calls)}
    /\ (strategy = HT /\ last = "tools") =>
          /\ pc = "subagents"
          /\ \A i \in 1..Len(messages) :
                messages[i].type = "tool" =>
                    messages[i].content[2] = NamedBy(messages[i].name)

\* C4 witness: a music transfer was requested and the music specialist is next.
C4_Witness ==
    /\ strategy = HT /\ pc = "subagents" /\ active = {MUSIC}
    /\ LatestResponse.tool_calls[1].name = T_MUSIC

\* C5: handoff_tools: a supervisor step whose response requests no transfer
\* ends the run at once, and its only effect on the shared state is that the
\* response is appended to the history; nothing runs after END.
C5_NoTransferEnds ==
    [][/\ pc # END
       /\ (strategy = HT /\ pc = "supervisor" /\ LastOf(messages').tool_calls = <<>>) =>
            /\ pc' = END
            /\ active' = {}
            /\ Len(messages') = Len(messages) + 1
            /\ SubSeq(messages', 1, Len(messages)) = messages
            /\ IsResponse(LastOf(messages'))
            /\ UNCHANGED <<customer_id, loaded_memory>>]_vars

\* C5 witness: the run ended on a response without tool calls.
C5_Witness ==
    /\ strategy = HT /\ pc = END /\ last = "supervisor"
    /\ IsResponse(LastOf(messages)) /\ LastOf(messages).tool_calls = <<>>

\* C6: command_send: a decision whose subagent field is unset makes the
\* supervisor raise: no specialist and no END is scheduled, only the router
\* call was made, messages / customer_id / loaded_memory are unchanged, and
\* the run does not continue after the error.
C6_UnsetTargetRaises ==
    [][/\ pc # "error"
       /\ (strategy = CS /\ pc = "supervisor" /\ result'.subagent = Unset) =>
            /\ pc' = "error"
            /\ active' = {}
            /\ sent' = EmptyFn
            /\ calls' = <<"router">>
            /\ UNCHANGED <<messages, customer_id, loaded_memory>>]_vars

\* C6 witness: the supervisor has raised on an unset target.
C6_Witness == strategy = CS /\ pc = "error" /\ result.subagent = Unset

\* C7: in both graphs the node after the specialists is the supervisor, and
\* END is entered only by a supervisor step on its terminating branch
\* (decision END / response without tool calls).
C7_ReturnToSupervisor ==
    [][/\ pc = "subagents" => pc' = "supervisor"
       /\ pc' = END =>
            /\ pc = "supervisor"
            /\ strategy = CS => result'.subagent = STEP_END
            /\ strategy = HT => LastOf(messages').tool_calls = <<>>]_vars

\* C7 witness: a run that ended after a specialist had answered.
C7_Witness ==
    /\ pc = END /\ last = "supervisor"
    /\ \E i \in 1..Len(messages) : messages[i].name \in Specialists

\* C8 (as claimed): at most one specialist is scheduled at any time.
C8_OneSpecialistPerTurn == Cardinality(active) <= 1

\* C9: the shared message sequence is append-only: every step leaves the old
\* sequence as a prefix of the new one and never duplicates a message, and
\* the command_send supervisor's Send leaves the shared sequence untouched.
C9_AppendOnly ==
    [][/\ IsPrefix(messages, messages')
       /\ DistinctIds(messages')
       /\ (strategy = CS /\ pc' = "subagents") => messages' = messages]_vars

\* C9 witness: both transfers of a run done, tool results and answers merged.
C9_Witness ==
    /\ strategy = HT /\ last = "subagents" /\ transfers >= 2
    /\ Len(messages) >= 6

\* C10 (as claimed): the narrowed input carries neither customer_id nor
\* loaded_memory.
C10_FieldsDropped ==
    (strategy = CS /\ pc = "subagents") =>
        \A n \in DOMAIN sent :
            /\ sent[n].messages = <<Instruction(result.context)>>
            /\ sent[n].customer_id = Unset
            /\ sent[n].loaded_memory = Unset

\* C10 (amended): the narrowed input replaces only the messages: it carries
\* the shared state's customer_id and loaded_memory unchanged (set or unset).
C10_FieldsKept ==
    (strategy = CS /\ pc = "subagents") =>
        \A n \in DOMAIN sent :
            /\ sent[n].messages = <<Instruction(result.context)>>
            /\ sent[n].customer_id = customer_id
            /\ sent[n].loaded_memory = loaded_memory

\* C10 witness: a hand-off from a state where both fields are set.
C10_Witness ==
    /\ strategy = CS /\ pc = "subagents"
    /\ customer_id # Unset /\ loaded_memory # Unset
    /\ \E n \in DOMAIN sent : sent[n].customer_id = customer_id

\* C12: the LLM calls of a supervisor run are made one after the other and
\* in a fixed number: command_send makes the router call alone when it routes
\* to a specialist and the router call followed by the summary call when the
\* decision is END, handoff_tools makes one call; a summary call is always
\* the second call of a run whose decision is END.
C12_LlmCalls ==
    last # "START" =>
        /\ (strategy = CS /\ result.subagent \in Specialists) => calls = <<"router">>
        /\ (strategy = CS /\ result.subagent = STEP_END) => calls = <<"router", "summary">>
        /\ strategy = HT => calls = <<"model_with_tools">>
        /\ \A i \in 1..Len(calls) :
              calls[i] = "summary" =>
                  /\ i = 2
                  /\ calls[1] = "router"
                  /\ strategy = CS
                  /\ result.subagent = STEP_END

\* C12 witness: a run that routed to a specialist with one call and later
\* decided END with two.
C12_Witness ==
    /\ strategy = CS /\ pc = END /\ calls = <<"router", "summary">>
    /\ \E i \in 1..Len(messages) : messages[i].name \in Specialists

\* C13: every redirect goes to a fixed destination. command_send: after a
\* supervisor run that did not raise, the run is at END on an END decision or
\* exactly the decided specialist is scheduled. handoff_tools: every tool
\* call the supervisor's responses carry names a tool the tools node knows,
\* and after every tools step a non-empty set of specialists is scheduled
\* (the run is never left without a next node).
C13_FixedDestinations ==
    /\ (strategy = CS /\ last = "supervisor" /\ pc # "error") =>
          \/ pc = END /\ result.subagent = STEP_END /\ active = {}
          \/ /\ pc = "subagents"
             /\ active = {result.subagent}
             /\ result.subagent \in {MUSIC, INVOICE}
    /\ strategy = HT =>
          /\ \A i \in 1..Len(messages) :
                /\ \A k \in 1..Len(messages[i].tool_calls) :
                      messages[i].tool_calls[k].name \in NodeTools
                /\ messages[i].type = "tool" => messages[i].content[1] # "Error: "
          /\ last = "tools" =>
                /\ pc = "subagents"
                /\ active # {}
                /\ active \subseteq {MUSIC, INVOICE}

\* C13 witness: a tools step on a response with two transfer requests has
\* scheduled its specialists.
C13_Witness ==
    /\ strategy = HT /\ last = "tools" /\ pc = "subagents"
    /\ Len(LatestResponse.tool_calls) = 2
    /\ LatestResponse.tool_calls[1].name = T_MUSIC

\* The one parametrized transfer action C14 speaks of: the destination and
\* the labels (tool name, default reason, default context) are data.
ParamTransfer(agent_name, tool_name, dflt_reason, dflt_context, rs, tool_call_id, reason, context) ==
    LET r == IF reason = Unset THEN dflt_reason ELSE reason
        c == IF context = Unset THEN dflt_context ELSE context
    IN [goto |-> agent_name,
        update |-> rs.messages \o
                   <<ToolMessage(<<"Successfully transferred to ", agent_name,
                                   ". Reason: ", r, ". Context: ", c>>,
                                 tool_name, tool_call_id)>>]

\* C14: on every state the tools node runs on, and for every tool call id,
\* reason and context (given or left out), each of the two transfer tools
\* returns what the one parametrized transfer action returns for its
\* destination and labels; so the two results differ in nothing but the
\* destination, the tool name, the agent name in the text and the defaults.
C14_OneParametrizedAction ==
    (strategy = HT /\ pc = "tools") =>
        \A i \in 1..Len(LastOf(messages).tool_calls) :
          \A reason \in Reasons : \A context \in ToolContexts :
            LET id == LastOf(messages).tool_calls[i].id
                inv == transfer_to_invoice_agent(State, id, reason, context)
                mus == transfer_to_music_catalog_agent(State, id, reason, context)
            IN /\ inv = ParamTransfer(INVOICE, T_INVOICE, "Invoice-related inquiry",
                                      "Context for the invoice agent",
                                      State, id, reason, context)
               /\ mus = ParamTransfer(MUSIC, T_MUSIC, "Music catalog inquiry",
                                      "Context for the music catalog agent",
                                      State, id, reason, context)
               /\ Len(inv.update) = Len(mus.update)
               /\ LastOf(inv.update).tool_call_id = LastOf(mus.update).tool_call_id
               /\ reason # Unset =>
                     LastOf(inv.update).content[4] = LastOf(mus.update).content[4]
               /\ context # Unset =>
                     LastOf(inv.update).content[6] = LastOf(mus.update).content[6]

\* C14 witness: the tools node is about to run a response that calls both
\* tools, one with its arguments given and one with them left out.
C14_Witness ==
    /\ strategy = HT /\ pc = "tools"
    /\ \E i, k \in 1..Len(LastOf(messages).tool_calls) :
          /\ LastOf(messages).tool_calls[i].name = T_INVOICE
          /\ LastOf(messages).tool_calls[i].reason # Unset
          /\ LastOf(messages).tool_calls[k].name = T_MUSIC
          /\ LastOf(messages).tool_calls[k].reason = Unset
          /\ LastOf(messages).tool_calls[k].context = Unset

\* Position of the supervisor's latest response in the shared sequence.
LatestResponseAt ==
    CHOOSE i \in 1..Len(messages) :
        /\ IsResponse(messages[i])
        /\ \A j \in (i + 1)..Len(messages) : ~IsResponse(messages[j])

\* The positions of the tool-result messages that answer tool call `id`.
ResultsFor(id) ==
    {i \in 1..Len(messages) : messages[i].type = "tool" /\ messages[i].tool_call_id = id}

\* C15: handoff_tools: every tool-result message carries the id (and the
\* tool name) of a tool call of an earlier supervisor response, and whenever
\* a specialist or the supervisor is about to run after a tools step, every
\* tool call of the supervisor's latest response has exactly one tool-result
\* message with its id, placed after that response.
C15_ToolResultsMatchRequests ==
    strategy = HT =>
        /\ \A i \in 1..Len(messages) :
              messages[i].type = "tool" =>
                  \E j \in 1..(i - 1) :
                      /\ IsResponse(messages[j])
                      /\ \E k \in 1..Len(messages[j].tool_calls) :
                            /\ messages[j].tool_calls[k].id = messages[i].tool_call_id
                            /\ messages[j].tool_calls[k].name = messages[i].name
        /\ (pc = "subagents" \/ (pc = "supervisor" /\ last = "subagents")) =>
              \A k \in 1..Len(LatestResponse.tool_calls) :
                  /\ Cardinality(ResultsFor(LatestResponse.tool_calls[k].id)) = 1
                  /\ \A i \in ResultsFor(LatestResponse.tool_calls[k].id) :
                        i > LatestResponseAt

\* C15 witness: the supervisor is about to run again after a response with two
\* tool calls was answered by the tools node and the specialists.
C15_Witness ==
    /\ strategy = HT /\ pc = "supervisor" /\ last = "subagents"
    /\ Len(LatestResponse.tool_calls) = 2
    /\ Cardinality(ResultsFor(LatestResponse.tool_calls[2].id)) = 1

\* C16: the routing steps (the supervisor of either graph and the tools
\* node with the two transfer tools) leave customer_id and loaded_memory as
\* they are: their updates hold the messages key only.
C16_RoutingKeepsFields ==
    [][(pc = "supervisor" \/ pc = "tools") =>
          /\ customer_id' = customer_id
          /\ loaded_memory' = loaded_memory]_vars

\* C16 witness: both fields still set at the end of a run with two transfers.
C16_Witness ==
    /\ pc = END /\ transfers >= 2
    /\ customer_id = "1" /\ loaded_memory = "likes jazz"

====
